---- MODULE Spec2Model ----
(***************************************************************************)
(* State-machine model of the virtual cavity simulator's control panel     *)
(* (src/advanced_cavity_gui.py, class CavitySimulationGUI): the driver's   *)
(* start/stop/reset commands, the background stepping loop, the bounded    *)
(* history store, session load, playback and the parameter-scan worker.    *)
(*                                                                         *)
(* Foreground handlers run on the Tk main thread, one at a time, and are   *)
(* one action each.  The stepping loop and the scan workers are Python     *)
(* threads: they are split at the statements where another thread can run  *)
(* in between, and a program counter records where each one stands.        *)
(*                                                                         *)
(* Numbers.  Control-parameter values are integers counted in a unit small *)
(* enough that every scan setpoint is a whole number of units (the scan    *)
(* range endpoints are multiples of num_points - 1).  Signals (complex     *)
(* voltages, detuning, mechanical state) are abstracted to 0 (exactly      *)
(* zero) and 1 (not zero).                                                 *)
(***************************************************************************)
EXTENDS Integers, Sequences, FiniteSets, TLC

\* ---------------------------------------------------------------- bounds
\* History capacity (self.max_history; 10000 in the code, scaled down).
max_history == 2
\* Largest number of rows of a session file offered to load_data.
MaxRows == 3
\* Wall-clock ticks; the stepping loop takes no step once the clock reads this.
MaxClock == 3
\* Steps taken by the reference simulator.
MaxRefSteps == 3
\* Stepping-loop thread slots and scan-worker slots.
MaxLoopThreads == 2
MaxScans == 1
\* Settling steps per scan setpoint (100 in the code, scaled down).
settle_steps == 2
\* GUI refresh period in steps (100 in the code, scaled down).
plot_every == 2
\* Pulse envelope geometry (510, 1300, 2048*8, 2048*10 in the code, scaled).
t_fill == 1
t_flat == 2
buf_size == 3
pul_len == 4

\* Setpoints per scan (20 in the code, scaled down).
num_points == 3

\* ------------------------------------------------------ program constants
NModes == 5

Div == num_points - 1
LoopIds == 1..MaxLoopThreads
ScanIds == 1..MaxScans
Modes == 1..NModes

\* Keys of history_data that hold one list each, in dictionary order.
SampleKeys ==
    <<"time", "vc_real", "vc_imag", "vc_mag", "vc_phase",
      "vr_real", "vr_imag", "vr_mag", "vr_phase", "detuning">>
NSampleKeys == Len(SampleKeys)
\* Keys of self.control_params, in dictionary order.
ParamKeys == <<"amp", "phase", "fsrc", "pulsed", "ib", "gain_dB">>
\* Choices of the scan combobox.
ScanParams == {"amp", "phase", "fsrc", "ib"}

\* Initial control parameters (amp 1.0, phase 0, fsrc -460, ib 0.008).
InitialParams ==
    [amp |-> 2 * Div, phase |-> 0, fsrc |-> -460, pulsed |-> FALSE,
     ib |-> 8, gain_dB |-> "20log10(12e6)"]

\* Positions the sliders are moved to.
AmpInputs == {0, 2 * Div}
PhaseInputs == {0, 90}
FsrcInputs == {-460, 0}
IbInputs == {0, 8}
\* Values typed into the scan range entries.
ScanEnds == {Div, 3 * Div}

VARIABLES
    simulation_running,  \* self.simulation_running
    recording,           \* self.recording
    playback_mode,       \* self.playback_mode
    playback_index,      \* self.playback_index
    playback_to,         \* upper end of self.playback_scale
    sim_thread,          \* self.sim_thread: 0 (None) or a loop thread id
    control_params,      \* self.control_params
    gui,                 \* amp_var, phase_var, fsrc_var, ib_var, pulsed_var
    history_data,        \* self.history_data
    state_m, state_vc, pha_src, buf_id, dw,   \* cavity state
    beam_fill,           \* value of self.beam_pul[t_fill:t_flat]
    loop,                \* stepping-loop threads: pc and locals
    scan,                \* scan workers: pc and locals
    scan_line,           \* data of self.scan_line (the last ScanResult shown)
    plot_pending,        \* a root.after(0, update_plots) callback is queued
    plot_view,           \* lengths of the arrays handed to the plot lines
    clock,               \* time.time()
    main,                \* the Tk main thread: where it stands inside a handler
    startup,             \* statuses the model builders returned to __init__
    ss_model,            \* self.mech_modes and self.Ad, self.Bd, self.Cd, self.Dd
    sample_step,         \* history variable: the step each stored entry was computed in
    disk,                \* the session file last written by save_data
    ref,                 \* the reference simulator (PythonCavitySimulator)
    fresh,               \* history variable: a fresh instance taking the same steps
    reset_done,          \* history variable: reset() was called and nothing restarted since
    appended_since_stop  \* history variable: samples appended since stop()

vars ==
    <<simulation_running, recording, playback_mode, playback_index,
      playback_to, sim_thread, control_params, gui, history_data, state_m,
      state_vc, pha_src, buf_id, dw, beam_fill, loop, scan, scan_line,
      plot_pending, plot_view, clock, main, startup, ss_model, sample_step, disk, ref,
      fresh, reset_done,
      appended_since_stop>>

cavity_vars == <<state_m, state_vc, pha_src, buf_id, dw, beam_fill>>
flag_vars == <<simulation_running, recording, playback_mode, playback_index, playback_to>>

\* ---------------------------------------------------------------- helpers
Min(a, b) == IF a < b THEN a ELSE b
Range(s) == {s[i] : i \in 1..Len(s)}
Pop0(s) == SubSeq(s, 2, Len(s))

EmptyHistory ==
    [time |-> <<>>, vc_real |-> <<>>, vc_imag |-> <<>>, vc_mag |-> <<>>,
     vc_phase |-> <<>>, vr_real |-> <<>>, vr_imag |-> <<>>, vr_mag |-> <<>>,
     vr_phase |-> <<>>, detuning |-> <<>>,
     mech_modes |-> [m \in Modes |-> <<>>],
     control_params |-> [amp |-> <<>>, phase |-> <<>>, fsrc |-> <<>>, pulsed |-> <<>>]]

IdleLoop ==
    [pc |-> "unborn", start_time |-> 0, step_count |-> 0, params |-> InitialParams,
     vc |-> 0, vr |-> 0, dw |-> 0, status |-> TRUE, current_time |-> 0, pha |-> 0]

IdleScan ==
    [pc |-> "unborn", param |-> "amp", min_val |-> 0, max_val |-> 0,
     param_values |-> <<>>, responses |-> <<>>, original_value |-> 0,
     i |-> 0, n |-> 0, steps |-> 0, params |-> InitialParams, vc |-> 0]

\* The cavity state a step reads and writes, as one record.
Cavity ==
    [state_m |-> state_m, state_vc |-> state_vc, pha_src |-> pha_src,
     buf_id |-> buf_id, dw |-> dw, beam_fill |-> beam_fill]

\* The cavity state __init__ builds (lines 111-120).
FreshState ==
    [state_m |-> 0, state_vc |-> 0, pha_src |-> 0, buf_id |-> 0, dw |-> 0,
     beam_fill |-> InitialParams.ib]

\* A freshly constructed instance that has taken no step.
FreshRun == [s |-> FreshState, vc |-> 0, vr |-> 0, dw |-> 0]
\* Both model builders succeeded and __init__ ran to its end.
StartupOk == [mech |-> TRUE, disc |-> TRUE, constructed |-> TRUE]
\* No session file has been written.
NoDocument == [metadata |-> "none", data |-> EmptyHistory]
NoFile == [kind |-> "none", rows |-> <<>>, store |-> NoDocument, saved |-> EmptyHistory]

\* PythonCavitySimulator.__init__, lines 26-34: vc = 0, amp = 1.0, beam
\* current 0.008 A (in mA).
RefConstructed == [vc |-> <<0, 0>>, amp |-> 1, beam_current |-> 8, step_count |-> 0]

\* The main thread between handlers.
MainIdleState == [pc |-> "idle", k |-> 0, dirty |-> FALSE]
MainIdle == main = MainIdleState

NoPlot == [line1 |-> <<0, 0>>, line2 |-> <<0, 0>>, line3 |-> <<0, 0>>, line4 |-> <<0, 0>>]

LoopAlive(t) == loop[t].pc \notin {"unborn", "dead", "crashed"}

\* self.mech_modes (lines 94-96), K in tenths.
MechModes ==
    [f |-> <<280, 341, 460, 487, 618>>, Q |-> <<40, 20, 50, 80, 100>>,
     K |-> <<20, 8, 20, 6, 2>>]
\* What lines 106-108 leave in self.Ad, self.Bd, self.Cd, self.Dd: the
\* zero-order-hold matrices, or whatever a builder that reported failure
\* handed back; nothing when __init__ raised before.
BuiltModel(st) ==
    LET d == IF ~st.constructed THEN "unset"
             ELSE IF st.mech /\ st.disc THEN "zoh" ELSE "unusable"
    IN  [mech_modes |-> MechModes, Ad |-> d, Bd |-> d, Cd |-> d, Dd |-> d]

\* No entry is stored.
NoSteps == [time |-> <<>>, ctrl |-> <<>>]
\* The step a loop thread is storing: the clock tick of its integrator call.
StepOf(l) == l.start_time + l.current_time

\* State after CavitySimulationGUI.__init__ when the model builders returned
\* the statuses st: __init__ ends in start_simulation() (line 82), unless
\* init_simulation_params raised on the way (st.constructed is FALSE) and
\* neither a window nor a thread exists.
ConstructedFor(st, workers) ==
    /\ startup = st
    /\ ss_model = BuiltModel(st)
    /\ sample_step = NoSteps
    /\ simulation_running = st.constructed
    /\ recording = FALSE
    /\ playback_mode = FALSE
    /\ playback_index = 0
    /\ playback_to = 100
    /\ sim_thread = IF st.constructed THEN 1 ELSE 0
    /\ control_params = InitialParams
    /\ gui = [amp |-> InitialParams.amp, phase |-> InitialParams.phase,
              fsrc |-> InitialParams.fsrc, ib |-> InitialParams.ib,
              pulsed |-> InitialParams.pulsed]
    /\ history_data = EmptyHistory
    /\ state_m = 0 /\ state_vc = 0 /\ pha_src = 0 /\ buf_id = 0 /\ dw = 0
    /\ beam_fill = InitialParams.ib
    /\ loop = [t \in LoopIds |-> IF t = 1 /\ st.constructed
                                 THEN [IdleLoop EXCEPT !.pc = "begin"] ELSE IdleLoop]
    /\ scan = [w \in workers |-> IdleScan]
    /\ scan_line = <<>>
    /\ plot_pending = FALSE
    /\ plot_view = NoPlot
    /\ clock = 0
    /\ main = MainIdleState
    /\ disk = NoFile
    /\ fresh = FreshRun
    /\ reset_done = FALSE
    /\ appended_since_stop = 0

\* The same with the MaxScans scan-worker slots of the other specifications.
Constructed(st) == ConstructedFor(st, ScanIds)

Init == Constructed(StartupOk) /\ ref = RefConstructed

\* What cav_ss_mech and ss_discrete (lines 106-108) can hand to __init__:
\* success with usable matrices, or a non-success status with matrices that
\* line 111 (self.Bd.shape) can use or not.  Neither status is read.
StartupOutcomes ==
    {st \in [mech : BOOLEAN, disc : BOOLEAN, constructed : BOOLEAN] :
        (st.mech /\ st.disc) => st.constructed}

InitStartup == (\E st \in StartupOutcomes : Constructed(st)) /\ ref = RefConstructed

\* -------------------------------------------------------------- plotting
\* update_plots: the lengths of the x and y arrays given to each line.
PlotOf(h, view) ==
    IF Len(h.time) = 0 THEN view
    ELSE [line1 |-> IF Len(h.vc_mag) > 0 THEN <<Len(h.time), Len(h.vc_mag)>> ELSE view.line1,
          line2 |-> IF Len(h.vc_phase) > 0 THEN <<Len(h.time), Len(h.vc_phase)>> ELSE view.line2,
          line3 |-> IF Len(h.vr_mag) > 0 THEN <<Len(h.time), Len(h.vr_mag)>> ELSE view.line3,
          line4 |-> IF Len(h.detuning) > 0 THEN <<Len(h.time), Len(h.detuning)>> ELSE view.line4]

\* The queued root.after(0, self.update_plots) callback runs on the main thread.
update_plots ==
    /\ main.pc # "update_params"
    /\ plot_pending
    /\ plot_pending' = FALSE
    /\ plot_view' = PlotOf(history_data, plot_view)
    /\ UNCHANGED <<flag_vars, sim_thread, control_params, gui, history_data, cavity_vars,
                   loop, scan, scan_line, clock, reset_done, appended_since_stop,
                   main, ref, sample_step, ss_model, startup, fresh, disk>>

\* ------------------------------------------------------- driver commands
\* The thread slot a new stepping loop gets: the lowest one not alive.
FreeLoopId == CHOOSE t \in LoopIds : ~LoopAlive(t) /\ \A u \in LoopIds : u < t => LoopAlive(u)

\* A start that creates a thread without looking at the old one.
AlwaysNewThread == TRUE
\* start_simulation's test before it creates a thread.
NeedsNewThread == sim_thread = 0 \/ ~LoopAlive(sim_thread)

start_simulation ==
    /\ MainIdle
    /\ reset_done' = FALSE
    /\ IF ~simulation_running
       THEN /\ simulation_running' = TRUE
            /\ appended_since_stop' = 0
            /\ IF NeedsNewThread /\ (\E t \in LoopIds : ~LoopAlive(t))
               THEN /\ sim_thread' = FreeLoopId
                    /\ loop' = [loop EXCEPT ![FreeLoopId] = [IdleLoop EXCEPT !.pc = "begin"]]
               ELSE UNCHANGED <<sim_thread, loop>>
       ELSE UNCHANGED <<simulation_running, sim_thread, loop, appended_since_stop>>
    /\ UNCHANGED <<recording, playback_mode, playback_index, playback_to, control_params, gui,
                   history_data, cavity_vars, scan, scan_line, plot_pending, plot_view,
                   clock,
                   main, ref, sample_step, ss_model, startup, fresh, disk>>

stop_simulation ==
    /\ MainIdle
    /\ simulation_running' = FALSE
    /\ UNCHANGED reset_done
    /\ appended_since_stop' = IF simulation_running THEN 0 ELSE appended_since_stop
    /\ UNCHANGED <<recording, playback_mode, playback_index, playback_to, sim_thread,
                   control_params, gui, history_data, cavity_vars, loop, scan, scan_line,
                   plot_pending, plot_view, clock,
                   main, ref, sample_step, ss_model, startup, fresh, disk>>

\* A reset that leaves the oscillator phase alone.
ResetKeepsPhase(s) ==
    [s EXCEPT !.state_m = 0, !.state_vc = 0, !.buf_id = 0, !.dw = 0]
\* reset_simulation, lines 603-608: the fields it zeroes.
ResetState(s) ==
    [s EXCEPT !.state_m = 0, !.state_vc = 0, !.pha_src = 0, !.buf_id = 0, !.dw = 0]

\* A reset that also restores the constructor's parameter values.
ParamsDefaulted(p) ==
    InitialParams
\* reset_simulation, lines 599-626: no statement assigns control_params or a
\* field of it, so the parameters after the call are the ones before it.
ParamsAfterReset(p) ==
    p

\* A reset that builds the state-space matrices again.
ModelRebuilt(m) == [m EXCEPT !.Ad = "rebuilt", !.Bd = "rebuilt"]
\* reset_simulation reads self.Bd.shape (line 604) and assigns none of
\* mech_modes, Ad, Bd, Cd, Dd.
ModelAfterReset(m) == m

reset_simulation ==
    /\ MainIdle
    /\ simulation_running' = FALSE
    /\ control_params' = ParamsAfterReset(control_params)
    /\ appended_since_stop' = IF simulation_running THEN 0 ELSE appended_since_stop
    /\ LET z == ResetState(Cavity)
       IN  /\ state_m' = z.state_m /\ state_vc' = z.state_vc /\ pha_src' = z.pha_src
           /\ buf_id' = z.buf_id /\ dw' = z.dw
    /\ fresh' = FreshRun
    /\ history_data' = EmptyHistory
    /\ sample_step' = NoSteps
    /\ ss_model' = ModelAfterReset(ss_model)
    /\ plot_view' = NoPlot
    /\ scan_line' = <<>>
    /\ reset_done' = TRUE
    /\ UNCHANGED <<recording, playback_mode, playback_index, playback_to, sim_thread,
                   gui, beam_fill, loop, scan, plot_pending, clock,
                   main, ref, startup, disk>>

toggle_recording ==
    /\ MainIdle
    /\ recording' = ~recording
    /\ UNCHANGED reset_done
    /\ UNCHANGED <<simulation_running, playback_mode, playback_index, playback_to,
                   sim_thread, control_params, gui, history_data, cavity_vars, loop, scan,
                   scan_line, plot_pending, plot_view, clock, appended_since_stop,
                   main, ref, sample_step, ss_model, startup, fresh, disk>>

\* update_params writes the control parameters one statement at a time, in
\* this order, each from its widget's variable (gain_dB has no widget).
UpdateOrder == <<"amp", "phase", "fsrc", "ib", "pulsed">>

\* One assignment of update_params (lines 563-567); the stepping threads can
\* run between two of them.  dirty: an earlier assignment of this call has
\* changed a value.
update_params ==
    /\ main.pc = "update_params"
    /\ LET key == UpdateOrder[main.k]
       IN  /\ control_params' = [control_params EXCEPT ![key] = gui[key]]
           /\ main' = IF main.k = Len(UpdateOrder) THEN MainIdleState
                      ELSE [main EXCEPT !.k = @ + 1,
                                        !.dirty = @ \/ control_params[key] # gui[key]]
    /\ UNCHANGED <<flag_vars, sim_thread, gui, history_data, cavity_vars, loop, scan,
                   scan_line, plot_pending, plot_view, clock, reset_done, appended_since_stop,
                   ref, sample_step, ss_model, startup, fresh, disk>>

\* A widget changes its Tk variable and then calls update_params.
WidgetEvent(g) ==
    /\ MainIdle
    /\ gui' = g
    /\ main' = [pc |-> "update_params", k |-> 1, dirty |-> FALSE]
    /\ UNCHANGED <<flag_vars, sim_thread, control_params, history_data, cavity_vars, loop,
                   scan, scan_line, plot_pending, plot_view, clock, reset_done,
                   appended_since_stop, ref, sample_step, ss_model, startup, fresh, disk>>

amp_scale == \E a \in AmpInputs : WidgetEvent([gui EXCEPT !.amp = a])
phase_scale == \E p \in PhaseInputs : WidgetEvent([gui EXCEPT !.phase = p])
fsrc_scale == \E f \in FsrcInputs : WidgetEvent([gui EXCEPT !.fsrc = f])
ib_scale == \E b \in IbInputs : WidgetEvent([gui EXCEPT !.ib = b])
pulsed_check == WidgetEvent([gui EXCEPT !.pulsed = ~@])

\* ---------------------------------------------------------------- playback
toggle_playback ==
    /\ MainIdle
    /\ UNCHANGED reset_done
    /\ IF Len(history_data.time) = 0
       THEN UNCHANGED <<playback_mode, playback_to>>
       ELSE /\ playback_mode' = ~playback_mode
            /\ playback_to' = IF ~playback_mode THEN Len(history_data.time) - 1 ELSE playback_to
    /\ UNCHANGED <<simulation_running, recording, playback_index, sim_thread, control_params, gui,
                   history_data, cavity_vars, loop, scan, scan_line, plot_pending,
                   plot_view, clock, appended_since_stop,
                   main, ref, sample_step, ss_model, startup, fresh, disk>>

set_playback_position ==
    \E v \in 0..playback_to :
        /\ MainIdle
        /\ playback_mode /\ Len(history_data.time) > 0
        /\ playback_index' = v
        /\ UNCHANGED reset_done
        /\ UNCHANGED <<simulation_running, recording, playback_mode, playback_to, sim_thread,
                       control_params, gui, history_data, cavity_vars, loop, scan, scan_line,
                       plot_pending, plot_view, clock, appended_since_stop,
                   main, ref, sample_step, ss_model, startup, fresh, disk>>

\* ------------------------------------------------------------ session load
\* Column counts a row of a tabular session file can have: too short for the
\* five fixed columns, the fixed columns only, and the full row.
RowWidths == {4, 5, 5 + NModes}
\* A cell of a tabular file is text: csv.writer writes str(value), and
\* float(cell) parses it back.
csv_text(value) == <<"text", value>>
float(cell) == cell[2]

\* Tabular files: one that cannot be opened or has no header line, and files
\* of up to MaxRows data rows of one width.
CsvFiles ==
    {[header |-> FALSE, rows |-> <<>>]}
        \cup {[header |-> TRUE, rows |-> [i \in 1..n |-> [c \in 1..w |-> csv_text(0)]]] :
                 n \in 0..MaxRows, w \in RowWidths}

\* One pass of the row loop of load_data: float(row[0]) .. float(row[4]) are
\* appended in turn, and row[c] of a row with c columns raises IndexError.
LoadRow(h, row) ==
    LET width == Len(row)
        h1 == [h EXCEPT !.time = Append(@, float(row[1]))]
        h2 == IF width > 1 THEN [h1 EXCEPT !.vc_mag = Append(@, float(row[2]))] ELSE h1
        h3 == IF width > 2 THEN [h2 EXCEPT !.vc_phase = Append(@, float(row[3]))] ELSE h2
        h4 == IF width > 3 THEN [h3 EXCEPT !.vr_mag = Append(@, float(row[4]))] ELSE h3
        h5 == IF width > 4 THEN [h4 EXCEPT !.detuning = Append(@, float(row[5]))] ELSE h4
    IN  IF width < 5 THEN h5
        ELSE [h5 EXCEPT !.mech_modes =
                 [m \in Modes |-> IF (m - 1) + 5 < width
                                  THEN Append(@[m], float(row[m + 5])) ELSE @[m]]]

RECURSIVE LoadRows(_, _)
\* The history after the row loop, and whether the loop ran to its end.
LoadRows(h, rows) ==
    IF rows = <<>> THEN [hist |-> h, ok |-> TRUE]
    ELSE IF Len(Head(rows)) < 5 THEN [hist |-> LoadRow(h, Head(rows)), ok |-> FALSE]
    ELSE LoadRows(LoadRow(h, Head(rows)), Tail(rows))

\* load_data on a tabular file: the store is replaced by an empty one before
\* the file is opened; update_plots runs only when no exception was raised.
LoadCsv(file) ==
    IF ~file.header THEN [hist |-> EmptyHistory, ok |-> FALSE]
    ELSE LoadRows(EmptyHistory, file.rows)

\* A structured file written by save_data from a store of n full rows.
JsonStore(n) ==
    LET col == [i \in 1..n |-> 0]
    IN  [time |-> col, vc_real |-> col, vc_imag |-> col, vc_mag |-> col,
         vc_phase |-> col, vr_real |-> col, vr_imag |-> col, vr_mag |-> col,
         vr_phase |-> col, detuning |-> col,
         mech_modes |-> [m \in Modes |-> col],
         control_params |-> [amp |-> <<>>, phase |-> <<>>, fsrc |-> <<>>, pulsed |-> <<>>]]
\* Structured files: unreadable (missing, malformed, no 'data'), or a store.
JsonFiles == [readable : BOOLEAN, rows : 0..MaxRows]

LoadJson(file) ==
    IF ~file.readable THEN [hist |-> history_data, ok |-> FALSE]
    ELSE [hist |-> JsonStore(file.rows), ok |-> TRUE]

\* The entries of a loaded store come from no step of this run (step 0).
LoadedSteps(h) ==
    [time |-> [i \in 1..Len(h.time) |-> 0],
     ctrl |-> [i \in 1..Len(h.control_params.amp) |-> 0]]

LoadResult(r) ==
    /\ MainIdle
    /\ history_data' = r.hist
    /\ sample_step' = LoadedSteps(r.hist)
    /\ plot_view' = IF r.ok THEN PlotOf(r.hist, plot_view) ELSE plot_view
    /\ main' = IF r.ok THEN main ELSE [MainIdleState EXCEPT !.pc = "load_error"]
    /\ reset_done' = FALSE
    /\ UNCHANGED <<flag_vars, sim_thread, control_params, gui, cavity_vars, loop, scan,
                   scan_line, plot_pending, clock, appended_since_stop,
                   ref, ss_model, startup, fresh, disk>>

\* The user closes the messagebox.showerror dialog; its handler returns.
close_error_box ==
    /\ main.pc \in {"scan_error", "load_error", "save_error"}
    /\ main' = MainIdleState
    /\ UNCHANGED <<flag_vars, sim_thread, control_params, gui, history_data, cavity_vars,
                   loop, scan, scan_line, plot_pending, plot_view, clock, reset_done,
                   appended_since_stop, ref, sample_step, ss_model, startup, fresh, disk>>

load_data_csv == \E file \in CsvFiles : LoadResult(LoadCsv(file))

load_data_json == \E file \in JsonFiles : LoadResult(LoadJson(file))

\* ------------------------------------------------------------ session save
\* save_data, tabular branch (lines 671-692): row i holds time, vc_mag,
\* vc_phase, vr_mag and detuning at i, then one cell per mechanical mode (0
\* where the mode's list is shorter).
CsvRowOf(h, i) ==
    <<csv_text(h.time[i]), csv_text(h.vc_mag[i]), csv_text(h.vc_phase[i]),
      csv_text(h.vr_mag[i]), csv_text(h.detuning[i])>>
        \o [m \in Modes |-> IF i <= Len(h.mech_modes[m])
                             THEN csv_text(h.mech_modes[m][i]) ELSE csv_text(0)]
\* Rows the writer completes: indexing a list shorter than 'time' raises
\* IndexError at the first row it lacks.
CsvRowsWritten(h) ==
    Min(Len(h.time),
        Min(Min(Len(h.vc_mag), Len(h.vc_phase)), Min(Len(h.vr_mag), Len(h.detuning))))
SaveCsv(h) ==
    [rows |-> [i \in 1..CsvRowsWritten(h) |-> CsvRowOf(h, i)],
     ok |-> CsvRowsWritten(h) = Len(h.time)]

\* save_data, structured branch (lines 654-669): the document json.dump
\* writes, and what json.load hands back as loaded_data.
JsonDump(h) == [metadata |-> "simulation_params", data |-> h]

\* save_data returns at once when the 'time' list is empty (line 643).
save_data_csv ==
    /\ MainIdle
    /\ history_data.time # <<>>
    /\ LET r == SaveCsv(history_data)
       IN  /\ disk' = [kind |-> "csv", rows |-> r.rows, store |-> NoDocument,
                       saved |-> history_data]
           /\ main' = IF r.ok THEN main ELSE [MainIdleState EXCEPT !.pc = "save_error"]
    /\ UNCHANGED <<flag_vars, sim_thread, control_params, gui, history_data, cavity_vars,
                   loop, scan, scan_line, plot_pending, plot_view, clock, reset_done,
                   appended_since_stop, ref, sample_step, ss_model, startup, fresh>>

save_data_json ==
    /\ MainIdle
    /\ history_data.time # <<>>
    /\ disk' = [kind |-> "json", rows |-> <<>>, store |-> JsonDump(history_data),
                saved |-> history_data]
    /\ UNCHANGED <<flag_vars, sim_thread, control_params, gui, history_data, cavity_vars,
                   loop, scan, scan_line, plot_pending, plot_view, clock, reset_done,
                   appended_since_stop, main, ref, sample_step, ss_model, startup, fresh>>

\* load_data on the file the last save_data wrote.
load_saved ==
    /\ disk.kind # "none"
    /\ LoadResult(IF disk.kind = "csv"
                  THEN LoadCsv([header |-> TRUE, rows |-> disk.rows])
                  ELSE [hist |-> disk.store.data, ok |-> TRUE])

\* ------------------------------------------------------- RF chain stages
\* Signals are 0 (exactly zero) or 1 (not zero): a product is zero when a
\* factor is, a sum is zero when both terms are.
NzMul(a, b) == IF a = 0 \/ b = 0 THEN 0 ELSE 1
NzAdd(a, b) == IF a = 0 /\ b = 0 THEN 0 ELSE 1
Nz(x) == IF x = 0 THEN 0 ELSE 1

\* sim_rfsrc: <<source sample, new phase>>; the phase is counted in units of
\* 2*pi*Ts radians per Hz.
sim_rfsrc(fsrc, Asrc, pha) == <<Nz(Asrc), pha + fsrc>>

\* A lookup that takes the index as it is.
EnvelopeIndexRaw(id) == id
\* buf_id if buf_id < len(buffer) else -1, as a 0-based position.
EnvelopeIndex(id) == IF id < buf_size THEN id ELSE buf_size - 1
\* self.base_pul: 1.0 on [0, t_flat), 0 after.
base_pul(j) == IF j < t_flat THEN 1 ELSE 0
\* self.beam_pul: the beam current on [t_fill, t_flat), 0 elsewhere.
beam_pul(j, fill) == IF t_fill <= j /\ j < t_flat THEN fill ELSE 0
base_cw == 1
beam_cw == 0

sim_iqmod(sig_in, pulsed, id) ==
    IF pulsed THEN NzMul(sig_in, base_pul(EnvelopeIndex(id))) ELSE NzMul(sig_in, base_cw)

sim_amp(sig_in, gain_dB) == sig_in

\* The beam-induced voltage sim_cav hands to the integrator.
BeamVoltage(pulsed, id, fill) ==
    IF pulsed THEN Nz(beam_pul(EnvelopeIndex(id), fill)) ELSE Nz(beam_cw)

\* Values of the microphonics draw np.random.randn(): zero or not.
NoiseValues == {0, 1}

\* One integrator step on the zero/non-zero abstraction:
\*   vc' = factor*vc + Ts*2*wh*(beta*vf/(beta+1) + vb),  vr = vc - vf,
\*   dw' = dw + mechanical contribution + noise, and the mechanical state is
\*   driven by the cavity voltage.
sim_scav_step(dw_step0, detuning0, vf_step, vb, vc0, m0) ==
    [vc |-> NzAdd(vc0, NzAdd(vf_step, vb)),
     vr |-> NzAdd(vc0, vf_step),
     dw |-> NzAdd(NzAdd(dw_step0, m0), detuning0),
     state_m |-> NzAdd(m0, vc0)]

\* A pulse index that wraps one step late.
AdvanceBufIdLate(id, pulsed) ==
    IF pulsed THEN (IF id + 1 > pul_len THEN 0 ELSE id + 1) ELSE id
\* The pulse index after lines 406-410.
AdvanceBufId(id, pulsed) ==
    IF pulsed THEN (IF id + 1 >= pul_len THEN 0 ELSE id + 1) ELSE id

\* simulation_step, lines 395-410, on a cavity state s: beam profile, source
\* phase, pulse index, all from the snapshot params.
HeadOf(s, params) ==
    [s EXCEPT !.beam_fill = params.ib,
              !.pha_src = sim_rfsrc(params.fsrc, params.amp, s.pha_src)[2],
              !.buf_id = AdvanceBufId(s.buf_id, params.pulsed)]

\* simulation_step, lines 412-439, on a cavity state s: the integrator's result.
ResultOf(s, params, noise) ==
    LET S0 == sim_rfsrc(params.fsrc, params.amp, s.pha_src)[1]
        S1 == sim_iqmod(S0, params.pulsed, s.buf_id)
        S2 == sim_amp(S1, params.gain_dB)
        vb == BeamVoltage(params.pulsed, s.buf_id, s.beam_fill)
    IN  sim_scav_step(s.dw, noise, S2, vb, s.state_vc, s.state_m)

\* Line 426: the integrator's outputs are assigned to the cavity state.
CavOf(s, r) == [s EXCEPT !.dw = r.dw, !.state_vc = r.vc, !.state_m = r.state_m]

\* What an integrator call that reports failure can hand back.
FailureResults == [vc : {0, 1}, vr : {0, 1}, dw : {0, 1}, state_m : {0, 1}]

StepHead(params) ==
    LET n == HeadOf(Cavity, params)
    IN  /\ beam_fill' = n.beam_fill
        /\ pha_src' = n.pha_src
        /\ buf_id' = n.buf_id
        /\ fresh' = [fresh EXCEPT !.s = HeadOf(@, params)]
        /\ UNCHANGED <<state_m, state_vc, dw>>

\* A step that makes a noise draw of its own in place of the one it is given.
StepResultOwnDraw(params, noise) == ResultOf(Cavity, params, 1 - noise)
\* Lines 412-437 on the program's cavity state.
StepResult(params, noise) == ResultOf(Cavity, params, noise)

\* r is the result on the program's state, f the one on the fresh instance's.
StepCav(r, f) ==
    /\ dw' = r.dw
    /\ state_vc' = r.vc
    /\ state_m' = r.state_m
    /\ fresh' = [s |-> CavOf(fresh.s, f), vc |-> f.vc, vr |-> f.vr, dw |-> f.dw]
    /\ UNCHANGED <<pha_src, buf_id, beam_fill>>

\* ------------------------------------------------------- the stepping loop
\* A thread that left simulation_loop, by return or by an uncaught exception.
Ended(how) == [IdleLoop EXCEPT !.pc = how]

\* Lines 443-444: start_time = time.time(); step_count = 0.
loop_begin(t) ==
    /\ loop[t].pc = "begin"
    /\ loop' = [loop EXCEPT ![t].pc = "while", ![t].start_time = clock, ![t].step_count = 0]
    /\ UNCHANGED <<flag_vars, sim_thread, control_params, gui, history_data, cavity_vars, scan,
                   scan_line, plot_pending, plot_view, clock, reset_done, appended_since_stop,
                   main, ref, sample_step, ss_model, startup, fresh, disk>>

\* A loop whose continuation test never fails.
LoopNeverStops == TRUE
\* Line 446: while self.simulation_running.
LoopContinues == simulation_running

loop_while(t) ==
    /\ loop[t].pc = "while"
    /\ loop' = [loop EXCEPT ![t] = IF LoopContinues THEN [@ EXCEPT !.pc = "if_playback"]
                                   ELSE [@ EXCEPT !.pc = "exiting"]]
    /\ UNCHANGED <<flag_vars, sim_thread, control_params, gui, history_data, cavity_vars, scan,
                   scan_line, plot_pending, plot_view, clock, reset_done, appended_since_stop,
                   main, ref, sample_step, ss_model, startup, fresh, disk>>

\* The loop has read simulation_running as False and simulation_loop returns;
\* until the thread has finished, sim_thread.is_alive() is still True.
loop_exit(t) ==
    /\ loop[t].pc = "exiting"
    /\ loop' = [loop EXCEPT ![t] = Ended("dead")]
    /\ UNCHANGED <<flag_vars, sim_thread, control_params, gui, history_data, cavity_vars, scan,
                   scan_line, plot_pending, plot_view, clock, reset_done, appended_since_stop,
                   main, ref, sample_step, ss_model, startup, fresh, disk>>

\* Line 447: if not self.playback_mode.
loop_if_playback(t) ==
    /\ loop[t].pc = "if_playback"
    /\ loop' = [loop EXCEPT ![t].pc = IF ~playback_mode THEN "step_head" ELSE "playback"]
    /\ UNCHANGED <<flag_vars, sim_thread, control_params, gui, history_data, cavity_vars, scan,
                   scan_line, plot_pending, plot_view, clock, reset_done, appended_since_stop,
                   main, ref, sample_step, ss_model, startup, fresh, disk>>

\* Line 449, first half of simulation_step.
loop_step_head(t) ==
    /\ loop[t].pc = "step_head"
    /\ StepHead(control_params)
    /\ loop' = [loop EXCEPT ![t].pc = "step_cav", ![t].params = control_params]
    /\ UNCHANGED <<flag_vars, sim_thread, control_params, gui, history_data, scan,
                   scan_line, plot_pending, plot_view, clock, reset_done, appended_since_stop,
                   main, ref, sample_step, ss_model, startup, disk>>

\* Later stages that read the shared dictionary again.
LiveParams(t) == control_params
\* (loop[t].params outlives the step as a history field, until the sample
\* is stored: it is the copy the stored sample was computed from.)
\* The parameters the later stages of the step read: the local params.
StepParams(t) == loop[t].params

\* Line 449, second half of simulation_step, and line 450: the wall clock has
\* moved on by the time it is read for current_time.
loop_step_cav(t) ==
    /\ loop[t].pc = "step_cav"
    /\ clock < MaxClock
    /\ clock' = clock + 1
    /\ \E noise \in NoiseValues :
        LET r == StepResult(StepParams(t), noise)
        IN  /\ StepCav(r, ResultOf(fresh.s, StepParams(t), noise))
            /\ loop' = [loop EXCEPT ![t].pc = "store", ![t].vc = r.vc, ![t].vr = r.vr,
                                    ![t].dw = r.dw,
                                    ![t].current_time = clock' - loop[t].start_time]
    /\ UNCHANGED <<flag_vars, sim_thread, control_params, gui, history_data, scan,
                   scan_line, plot_pending, plot_view, reset_done, appended_since_stop,
                   main, ref, sample_step, ss_model, startup, disk>>

\* Line 449 when sim_scav_step reports failure: sim_cav drops the status
\* (line 374) and hands the returned values on like any others.
loop_step_fail(t) ==
    /\ loop[t].pc = "step_cav"
    /\ clock < MaxClock
    /\ clock' = clock + 1
    /\ \E r \in FailureResults :
        /\ StepCav(r, r)
        /\ loop' = [loop EXCEPT ![t].pc = "store", ![t].vc = r.vc, ![t].vr = r.vr,
                                ![t].dw = r.dw,
                                ![t].status = FALSE,
                                ![t].current_time = clock' - loop[t].start_time]
    /\ UNCHANGED <<flag_vars, sim_thread, control_params, gui, history_data, scan,
                   scan_line, plot_pending, plot_view, reset_done, appended_since_stop,
                   main, ref, sample_step, ss_model, startup, disk>>

\* store_data, line 471: is the store at capacity?
AtCapacity(h) == Len(h.time) >= max_history

loop_store(t) ==
    /\ loop[t].pc = "store"
    /\ loop' = [loop EXCEPT ![t].pc = IF AtCapacity(history_data) THEN "evict_time"
                                      ELSE "append_time"]
    /\ UNCHANGED <<flag_vars, sim_thread, control_params, gui, history_data, cavity_vars, scan,
                   scan_line, plot_pending, plot_view, clock, reset_done, appended_since_stop,
                   main, ref, sample_step, ss_model, startup, fresh, disk>>

\* store_data, lines 472-474, first key: history_data['time'].pop(0), which
\* raises IndexError on an empty list.
loop_evict_time(t) ==
    /\ loop[t].pc = "evict_time"
    /\ IF Len(history_data.time) = 0
       THEN /\ loop' = [loop EXCEPT ![t] = Ended("crashed")]
            /\ UNCHANGED <<history_data, sample_step>>
       ELSE /\ history_data' = [history_data EXCEPT !.time = Pop0(@)]
            /\ sample_step' = [sample_step EXCEPT !.time = Pop0(@)]
            /\ loop' = [loop EXCEPT ![t].pc = "evict_rest"]
    /\ UNCHANGED <<flag_vars, sim_thread, control_params, gui, cavity_vars, scan,
                   scan_line, plot_pending, plot_view, clock, reset_done, appended_since_stop,
                   main, ref, ss_model, startup, fresh, disk>>

\* The other sample keys in dictionary order, up to the first empty list.
RECURSIVE PopKeys(_, _)
PopKeys(h, k) ==
    IF k > NSampleKeys \/ Len(h[SampleKeys[k]]) = 0 THEN h
    ELSE PopKeys([h EXCEPT ![SampleKeys[k]] = Pop0(@)], k + 1)
PopRaises(h) == \E k \in 2..NSampleKeys : Len(h[SampleKeys[k]]) = 0
PopNonEmpty(s) == IF Len(s) > 0 THEN Pop0(s) ELSE s

\* store_data, lines 472-482 for the remaining keys: the other sample lists
\* (IndexError on an empty one), then every non-empty mode list and every
\* non-empty recorded-parameter list.
EvictRest(h) ==
    IF PopRaises(h) THEN PopKeys(h, 2)
    ELSE [PopKeys(h, 2) EXCEPT
             !.mech_modes = [m \in Modes |-> PopNonEmpty(@[m])],
             !.control_params = [p \in DOMAIN @ |-> PopNonEmpty(@[p])]]

loop_evict_rest(t) ==
    /\ loop[t].pc = "evict_rest"
    /\ history_data' = EvictRest(history_data)
    /\ sample_step' = IF PopRaises(history_data) THEN sample_step
                       ELSE [sample_step EXCEPT !.ctrl = PopNonEmpty(@)]
    /\ loop' = [loop EXCEPT ![t] = IF PopRaises(history_data) THEN Ended("crashed")
                                   ELSE [@ EXCEPT !.pc = "append_time"]]
    /\ UNCHANGED <<flag_vars, sim_thread, control_params, gui, cavity_vars, scan,
                   scan_line, plot_pending, plot_view, clock, reset_done, appended_since_stop,
                   main, ref, ss_model, startup, fresh, disk>>

\* store_data, line 485: the time stamp is appended.
loop_append_time(t) ==
    /\ loop[t].pc = "append_time"
    /\ history_data' = [history_data EXCEPT !.time = Append(@, loop[t].current_time)]
    /\ sample_step' = [sample_step EXCEPT !.time = Append(@, StepOf(loop[t]))]
    /\ loop' = [loop EXCEPT ![t].pc = "append_rest"]
    /\ appended_since_stop' =
           IF ~simulation_running THEN Min(appended_since_stop + 1, 2)
           ELSE appended_since_stop
    /\ UNCHANGED <<flag_vars, sim_thread, control_params, gui, cavity_vars, scan,
                   scan_line, plot_pending, plot_view, clock, reset_done,
                   main, ref, ss_model, startup, fresh, disk>>

\* store_data, lines 486-494: the value appended to each other sample list.
SampleValue(key, l) ==
    IF key \in {"vc_real", "vc_imag", "vc_mag", "vc_phase"} THEN l.vc
    ELSE IF key = "detuning" THEN l.dw
    ELSE l.vr

AppendRest(h, l) ==
    [key \in DOMAIN h |->
        IF key \in Range(SampleKeys) \ {"time"} THEN Append(h[key], SampleValue(key, l))
        ELSE h[key]]

loop_append_rest(t) ==
    /\ loop[t].pc = "append_rest"
    /\ history_data' = AppendRest(history_data, loop[t])
    /\ loop' = [loop EXCEPT ![t].pc = "mech"]
    /\ UNCHANGED <<flag_vars, sim_thread, control_params, gui, cavity_vars, scan,
                   scan_line, plot_pending, plot_view, clock, reset_done, appended_since_stop,
                   main, ref, sample_step, ss_model, startup, fresh, disk>>

\* store_data, lines 497-502: one value per mechanical mode, read from self.state_m.
loop_mech(t) ==
    /\ loop[t].pc = "mech"
    /\ history_data' = [history_data EXCEPT
                           !.mech_modes = [m \in Modes |-> Append(@[m], state_m)]]
    /\ loop' = [loop EXCEPT ![t].pc = "ctrl"]
    /\ UNCHANGED <<flag_vars, sim_thread, control_params, gui, cavity_vars, scan,
                   scan_line, plot_pending, plot_view, clock, reset_done, appended_since_stop,
                   main, ref, sample_step, ss_model, startup, fresh, disk>>

\* Line 506 reads self.control_params, the shared dictionary, when the
\* sample is stored.
RecordedFrom(t) == control_params

\* store_data, lines 505-507: with recording on, the loop over
\* self.control_params.items() appends amp, phase, fsrc and pulsed and then
\* looks up history_data['control_params']['ib'], which raises KeyError.
RecordParams(h, cp) ==
    [h EXCEPT !.control_params =
        [p \in DOMAIN @ |-> IF p \in Range(ParamKeys) THEN Append(@[p], cp[p]) ELSE @[p]]]
RecordingRaises(h) == \E i \in 1..Len(ParamKeys) : ParamKeys[i] \notin DOMAIN h.control_params

loop_ctrl(t) ==
    /\ loop[t].pc = "ctrl"
    /\ IF recording
       THEN /\ history_data' = RecordParams(history_data, RecordedFrom(t))
            /\ sample_step' = [sample_step EXCEPT !.ctrl = Append(@, StepOf(loop[t]))]
            /\ loop' = [loop EXCEPT ![t] = IF RecordingRaises(history_data)
                                           THEN Ended("crashed")
                                           ELSE [@ EXCEPT !.pc = "count",
                                                          !.params = InitialParams]]
       ELSE /\ loop' = [loop EXCEPT ![t].pc = "count", ![t].params = InitialParams]
            /\ UNCHANGED <<history_data, sample_step>>
    /\ UNCHANGED <<flag_vars, sim_thread, control_params, gui, cavity_vars, scan,
                   scan_line, plot_pending, plot_view, clock, reset_done, appended_since_stop,
                   main, ref, ss_model, startup, fresh, disk>>

\* Lines 455-460: step_count += 1, and a GUI refresh every plot_every steps.
loop_count(t) ==
    /\ loop[t].pc = "count"
    /\ loop' = [loop EXCEPT ![t].pc = "sleep", ![t].step_count = @ + 1,
                            ![t].vc = 0, ![t].vr = 0, ![t].dw = 0, ![t].status = TRUE]
    /\ plot_pending' = IF (loop[t].step_count + 1) % plot_every = 0 THEN TRUE ELSE plot_pending
    /\ UNCHANGED <<flag_vars, sim_thread, control_params, gui, history_data, cavity_vars, scan,
                   scan_line, plot_view, clock, reset_done, appended_since_stop,
                   main, ref, sample_step, ss_model, startup, fresh, disk>>

\* Lines 463-464: the playback branch only asks for a refresh.
loop_playback(t) ==
    /\ loop[t].pc = "playback"
    /\ loop' = [loop EXCEPT ![t].pc = "sleep"]
    /\ plot_pending' = TRUE
    /\ UNCHANGED <<flag_vars, sim_thread, control_params, gui, history_data, cavity_vars, scan,
                   scan_line, plot_view, clock, reset_done, appended_since_stop,
                   main, ref, sample_step, ss_model, startup, fresh, disk>>

\* Line 466: time.sleep(self.Ts * 100).
loop_sleep(t) ==
    /\ loop[t].pc = "sleep"
    /\ loop' = [loop EXCEPT ![t].pc = "while"]
    /\ UNCHANGED <<flag_vars, sim_thread, control_params, gui, history_data, cavity_vars, scan,
                   scan_line, plot_pending, plot_view, clock, reset_done, appended_since_stop,
                   main, ref, sample_step, ss_model, startup, fresh, disk>>

\* simulation_loop for as long as simulation_running stays set: the steps of
\* a specification in which nothing stops the simulation.
running_loop(t) ==
    \/ loop_begin(t) \/ loop_while(t) \/ loop_if_playback(t)
    \/ loop_step_head(t) \/ loop_step_cav(t)
    \/ loop_store(t) \/ loop_evict_time(t) \/ loop_evict_rest(t)
    \/ loop_append_time(t) \/ loop_append_rest(t) \/ loop_mech(t) \/ loop_ctrl(t)
    \/ loop_count(t) \/ loop_playback(t) \/ loop_sleep(t)

simulation_loop(t) == running_loop(t) \/ loop_exit(t)

\* --------------------------------------------------------- parameter scan
\* A grid that leaves the end point out (np.linspace with endpoint=False).
linspace_open(start, stop, num) ==
    [j \in 1..num |-> start + ((j - 1) * (stop - start)) \div num]
\* np.linspace(start, stop, num): start + i*step for the first num-1 points,
\* step = (stop - start)/(num - 1), and the last point set to stop itself.
linspace(start, stop, num) ==
    [j \in 1..num |-> IF j = num THEN stop ELSE start + ((j - 1) * (stop - start)) \div (num - 1)]

\* A range test that lets an empty range (min = max) through.
RangeAcceptedLoose(min_val, max_val) == ~(min_val > max_val)
\* start_parameter_scan: the range test, then a new worker thread.
RangeAccepted(min_val, max_val) == ~(min_val >= max_val)

start_parameter_scan ==
    \E param \in ScanParams, min_val \in ScanEnds, max_val \in ScanEnds :
        /\ MainIdle
        /\ IF RangeAccepted(min_val, max_val)
           THEN \E w \in DOMAIN scan :
                   /\ reset_done' = FALSE
                   /\ scan[w].pc = "unborn"
                   /\ \A u \in DOMAIN scan : u < w => scan[u].pc # "unborn"
                   /\ scan' = [scan EXCEPT ![w] = [IdleScan EXCEPT !.pc = "begin",
                                   !.param = param, !.min_val = min_val, !.max_val = max_val]]
                   /\ UNCHANGED main
           ELSE /\ main' = [MainIdleState EXCEPT !.pc = "scan_error"]
                /\ UNCHANGED <<scan, reset_done>>
        /\ UNCHANGED <<flag_vars, sim_thread, control_params, gui, history_data, cavity_vars,
                       loop, scan_line, plot_pending, plot_view, clock, appended_since_stop,
                       ref, sample_step, ss_model, startup, fresh, disk>>

\* parameter_scan, lines 782-787.
scan_begin(w) ==
    /\ scan[w].pc = "begin"
    /\ scan' = [scan EXCEPT ![w].pc = "set", ![w].i = 1, ![w].responses = <<>>,
                    ![w].param_values = linspace(scan[w].min_val, scan[w].max_val, num_points),
                    ![w].original_value = control_params[scan[w].param]]
    /\ UNCHANGED <<flag_vars, sim_thread, control_params, gui, history_data, cavity_vars, loop,
                   scan_line, plot_pending, plot_view, clock, reset_done, appended_since_stop,
                   main, ref, sample_step, ss_model, startup, fresh, disk>>

\* Lines 791-797: the next setpoint is written to the shared control parameters.
scan_set(w) ==
    /\ scan[w].pc = "set"
    /\ control_params' = [control_params EXCEPT ![scan[w].param] = scan[w].param_values[scan[w].i]]
    /\ scan' = [scan EXCEPT ![w].pc = "step_head", ![w].n = 0]
    /\ UNCHANGED <<flag_vars, sim_thread, gui, history_data, cavity_vars, loop,
                   scan_line, plot_pending, plot_view, clock, reset_done, appended_since_stop,
                   main, ref, sample_step, ss_model, startup, fresh, disk>>

\* Lines 799-800: one settling step, first half of simulation_step.
scan_step_head(w) ==
    /\ scan[w].pc = "step_head"
    /\ StepHead(control_params)
    /\ scan' = [scan EXCEPT ![w].pc = "step_cav", ![w].params = control_params]
    /\ UNCHANGED <<flag_vars, sim_thread, control_params, gui, history_data, loop,
                   scan_line, plot_pending, plot_view, clock, reset_done, appended_since_stop,
                   main, ref, sample_step, ss_model, startup, disk>>

\* A settling loop that stops one step early.
MoreSettlingShort(n) == n + 1 < settle_steps
\* Line 799, for _ in range(100): another step follows n completed ones.
MoreSettling(n) == n < settle_steps

\* A settling step that stores its result as a step of the loop does.
HistoryAfterStoringStep(h) == [h EXCEPT !.time = Append(@, 0)]
\* Lines 799-800: the worker calls simulation_step and never store_data, so
\* the history after a settling step is the history before it.
HistoryAfterScanStep(h) == h

\* Second half of simulation_step, and the settling loop's count (steps is a
\* history field: the simulation_step calls this worker has completed).
scan_step_cav(w) ==
    /\ scan[w].pc = "step_cav"
    /\ \E noise \in NoiseValues :
        LET r == StepResult(scan[w].params, noise)
        IN  /\ StepCav(r, ResultOf(fresh.s, scan[w].params, noise))
            /\ scan' = [scan EXCEPT ![w].vc = r.vc, ![w].n = @ + 1, ![w].steps = @ + 1,
                            ![w].params = InitialParams,
                            ![w].pc = IF MoreSettling(scan[w].n + 1) THEN "step_head"
                                      ELSE "record"]
    /\ history_data' = HistoryAfterScanStep(history_data)
    /\ UNCHANGED <<flag_vars, sim_thread, control_params, gui, loop,
                   scan_line, plot_pending, plot_view, clock, reset_done, appended_since_stop,
                   main, ref, sample_step, ss_model, startup, disk>>

\* Lines 803-807: the settled response is recorded; on to the next setpoint.
scan_record(w) ==
    /\ scan[w].pc = "record"
    /\ scan' = [scan EXCEPT ![w].responses = Append(@, scan[w].vc),
                    ![w].i = @ + 1, ![w].vc = 0, ![w].n = 0,
                    ![w].pc = IF scan[w].i < Len(scan[w].param_values) THEN "set" ELSE "restore"]
    /\ UNCHANGED <<flag_vars, sim_thread, control_params, gui, history_data, cavity_vars, loop,
                   scan_line, plot_pending, plot_view, clock, reset_done, appended_since_stop,
                   main, ref, sample_step, ss_model, startup, fresh, disk>>

\* A restore that writes back what the parameter holds already.
LastSetpoint(w) == control_params[scan[w].param]
\* Line 810: the value the restore writes back.
RestoredValue(w) == scan[w].original_value

scan_restore(w) ==
    /\ scan[w].pc = "restore"
    /\ control_params' = [control_params EXCEPT ![scan[w].param] = RestoredValue(w)]
    /\ scan' = [scan EXCEPT ![w].pc = "publish"]
    /\ UNCHANGED <<flag_vars, sim_thread, gui, history_data, cavity_vars, loop,
                   scan_line, plot_pending, plot_view, clock, reset_done, appended_since_stop,
                   main, ref, sample_step, ss_model, startup, fresh, disk>>

\* Lines 813-814 and update_scan_plot: the ScanResult goes to the scan plot.
ScanResult(w) ==
    [j \in 1..Len(scan[w].responses) |-> <<scan[w].param_values[j], scan[w].responses[j]>>]

scan_publish(w) ==
    /\ scan[w].pc = "publish"
    /\ scan_line' = ScanResult(w)
    /\ scan' = [scan EXCEPT ![w].pc = "done"]
    /\ UNCHANGED <<flag_vars, sim_thread, control_params, gui, history_data, cavity_vars, loop,
                   plot_pending, plot_view, clock, reset_done, appended_since_stop,
                   main, ref, sample_step, ss_model, startup, fresh, disk>>

parameter_scan(w) ==
    \/ scan_begin(w) \/ scan_set(w) \/ scan_step_head(w) \/ scan_step_cav(w)
    \/ scan_record(w) \/ scan_restore(w) \/ scan_publish(w)

\* ---------------------------------------------------- reference simulator
\* Voltages are pairs <<real, imaginary>> in kV; Ts * x is held as the
\* integer Ts * x * Den, detuning in units of 100 rad/s (Ts = 1e-6 s).
Den == 10000
\* Ts * wh = 1e-6 * pi * 1.3e9 / 3e6 = 0.00136, times Den.
TsWh == 14
\* 10 ** (gain_dB / 20) = 12e6 V per unit of amplitude, in kV.
gain_linear == 12000
\* RL = 0.5 * roQ * QL = 1.554e9 Ohm: kV per mA of beam current.
RL == 1554
\* Coupling.
beta == 10000

Mag2(v) == v[1] * v[1] + v[2] * v[2]

\* sim_scav_step_simplified, lines 51-73:
\*   vf_coupled = beta*vf_step/(beta+1);  drive_total = 2*wh*(vf_coupled + vb)
\*   factor = 1 - Ts*(wh - 1j*detuning0)
\*   vc_new = factor*state_vc + Ts*drive_total;  vr = state_vc - vf_step
sim_scav_step_simplified(detuning0, vf_step, vb, state_vc0) ==
    LET cre == (beta * vf_step[1]) \div (beta + 1)
        cim == (beta * vf_step[2]) \div (beta + 1)
        dre == 2 * TsWh * (cre + vb[1])
        dim == 2 * TsWh * (cim + vb[2])
        fre == Den - TsWh
        fim == detuning0
    IN  [vc |-> <<(fre * state_vc0[1] - fim * state_vc0[2] + dre) \div Den,
                  (fre * state_vc0[2] + fim * state_vc0[1] + dim) \div Den>>,
         vr |-> <<state_vc0[1] - vf_step[1], state_vc0[2] - vf_step[2]>>,
         dw |-> detuning0]

\* exp(1j*phase) * exp(1j*2*pi*fsrc*time), line 82: a unit phasor whose
\* direction depends on the time of the step.
UnitPhasors == {<<1, 0>>, <<0, 1>>, <<-1, 0>>, <<0, -1>>}
\* Values of dw_micr = 2*pi*randn()*10 and of any other bounded detuning
\* sequence fed to the step: 0, 50e3 and +-100e3 rad/s.
DetuningInputs == {-1000, 0, 500, 1000}
\* States the reference simulator is stepped from: the cavity voltage some
\* driven steps have left, and the attributes amp and beam_current as set.
RefStates ==
    [vc : {<<0, 0>>, <<10000, 0>>, <<0, -10000>>}, amp : {0, 1}, beam_current : {0, 8},
     step_count : {0}]

\* PythonCavitySimulator.step, lines 75-104.
reference_step ==
    /\ ref.step_count < MaxRefSteps
    /\ \E u \in UnitPhasors, detuning \in DetuningInputs :
          LET S0 == <<ref.amp * u[1], ref.amp * u[2]>>
              S2 == <<S0[1] * gain_linear, S0[2] * gain_linear>>
              vb == <<-(RL * ref.beam_current), 0>>
              r  == sim_scav_step_simplified(detuning, S2, vb, ref.vc)
          IN  ref' = [ref EXCEPT !.vc = r.vc, !.step_count = @ + 1]
    /\ UNCHANGED <<flag_vars, sim_thread, control_params, gui, history_data, cavity_vars,
                   loop, scan, scan_line, plot_pending, plot_view, clock, reset_done,
                   appended_since_stop, main, sample_step, ss_model, startup, fresh, disk>>

\* ------------------------------------------------------- thread positions
\* Positions of a stepping-loop thread inside store_data.
StorePositions ==
    {"evict_time", "evict_rest", "append_time", "append_rest", "mech", "ctrl"}
\* Positions of a stepping-loop thread inside simulation_step or store_data.
LiveStepPositions == {"step_cav", "store"} \cup StorePositions

\* ---------------------------------------------------------- specifications
Foreground ==
    \/ start_simulation \/ stop_simulation \/ reset_simulation \/ toggle_recording
    \/ amp_scale \/ phase_scale \/ fsrc_scale \/ ib_scale \/ pulsed_check
    \/ toggle_playback \/ set_playback_position
    \/ load_data_csv \/ load_data_json \/ start_parameter_scan \/ update_plots
    \/ save_data_csv \/ save_data_json \/ load_saved
    \/ update_params \/ close_error_box

Next ==
    \/ Foreground
    \/ \E t \in LoopIds : simulation_loop(t) \/ loop_step_fail(t)
    \/ \E w \in ScanIds : parameter_scan(w)
    \/ reference_step

Spec == Init /\ [][Next]_vars

\* The store under appends and session loads.
NextStore ==
    \/ \E t \in LoopIds : running_loop(t)
    \/ toggle_playback \/ load_data_csv \/ load_data_json \/ close_error_box
SpecStore == Init /\ [][NextStore]_vars

\* The store's readers against the appending loop.
NextPlot ==
    \/ \E t \in LoopIds : running_loop(t)
    \/ toggle_playback \/ update_plots
SpecPlot == Init /\ [][NextPlot]_vars

\* The driver's commands against the stepping loop.
NextDriver ==
    \/ \E t \in LoopIds : simulation_loop(t)
    \/ start_simulation \/ stop_simulation \/ reset_simulation
    \/ toggle_playback \/ toggle_recording
SpecDriver == Init /\ [][NextDriver]_vars

\* The first scan against the amplitude slider.
NextScan ==
    \/ parameter_scan(1)
    \/ start_parameter_scan \/ close_error_box
    \/ amp_scale \/ update_params
SpecScan == Init /\ [][NextScan]_vars

\* A scan against the stepping loop.
NextConc ==
    \/ \E t \in LoopIds : running_loop(t)
    \/ \E w \in ScanIds : parameter_scan(w)
    \/ start_parameter_scan \/ close_error_box \/ toggle_playback
SpecConc == Init /\ [][NextConc]_vars

\* The stepping loop with an integrator that can report failure.
NextFault ==
    \/ \E t \in LoopIds : simulation_loop(t) \/ loop_step_fail(t)
    \/ start_simulation \/ stop_simulation \/ toggle_playback
SpecFault == Init /\ [][NextFault]_vars

\* Construction with model builders that can report failure, then the driver.
NextStartup ==
    /\ startup.constructed
    /\ \/ \E t \in LoopIds : simulation_loop(t)
       \/ start_simulation \/ stop_simulation \/ toggle_playback
SpecStartup == InitStartup /\ [][NextStartup]_vars

\* reset() called by a sequential caller: no step is being computed or stored.
reset_between_steps ==
    /\ \A t \in LoopIds : loop[t].pc \notin LiveStepPositions
    /\ reset_simulation

\* Steps under a changing pulse mode, and resets between steps.
NextReplay ==
    \/ \E t \in LoopIds : simulation_loop(t)
    \/ start_simulation \/ reset_between_steps
    \/ toggle_playback
    \/ pulsed_check \/ update_params
SpecReplay == Init /\ [][NextReplay]_vars

\* The first scan's settling steps against the pulse-mode check box.
NextPulse ==
    \/ parameter_scan(1)
    \/ start_parameter_scan \/ close_error_box
    \/ pulsed_check \/ update_params
SpecPulse == Init /\ [][NextPulse]_vars

\* The stepping loop against the amplitude slider and the pulse-mode check box.
NextSnapshot ==
    \/ \E t \in LoopIds : running_loop(t)
    \/ toggle_playback
    \/ amp_scale \/ pulsed_check \/ update_params
SpecSnapshot == Init /\ [][NextSnapshot]_vars

\* A scan whose worker thread is scheduled again and again until it returns.
NextScanLive ==
    \/ parameter_scan(1)
    \/ start_parameter_scan \/ close_error_box \/ toggle_recording
SpecScanLive == Init /\ [][NextScanLive]_vars /\ WF_vars(parameter_scan(1))

\* The reference simulator stepped from a given voltage under given detuning.
InitDecay == Constructed(StartupOk) /\ ref \in RefStates
SpecDecay == InitDecay /\ [][reference_step]_vars

\* ------------------------------ the pulse index, statement by statement
\* Lines 398-407 on a cavity state s: the snapshot's beam profile and source
\* phase, and self.buf_id += 1 without the test that follows it.  (A lost
\* update of two threads' increments leaves a value one smaller, which one
\* increment fewer reaches as well.)
IncrementOf(s, params) ==
    [s EXCEPT !.beam_fill = params.ib,
              !.pha_src = sim_rfsrc(params.fsrc, params.amp, s.pha_src)[2],
              !.buf_id = IF params.pulsed THEN @ + 1 ELSE @]

\* Lines 408-409: if self.buf_id >= self.pul_len: self.buf_id = 0.
WrapOf(id) == IF id >= pul_len THEN 0 ELSE id

StepIncrement(params) ==
    LET n == IncrementOf(Cavity, params)
    IN  /\ beam_fill' = n.beam_fill
        /\ pha_src' = n.pha_src
        /\ buf_id' = n.buf_id
        /\ fresh' = [fresh EXCEPT !.s = HeadOf(@, params)]
        /\ UNCHANGED <<state_m, state_vc, dw>>

StepWrap ==
    /\ buf_id' = WrapOf(buf_id)
    /\ UNCHANGED <<state_m, state_vc, dw, pha_src, beam_fill, fresh>>

loop_step_increment(t) ==
    /\ loop[t].pc = "step_head"
    /\ StepIncrement(control_params)
    /\ loop' = [loop EXCEPT ![t].pc = IF control_params.pulsed THEN "step_wrap" ELSE "step_cav",
                            ![t].params = control_params]
    /\ UNCHANGED <<flag_vars, sim_thread, control_params, gui, history_data, scan,
                   scan_line, plot_pending, plot_view, clock, reset_done, appended_since_stop,
                   main, ref, sample_step, ss_model, startup, disk>>

loop_step_wrap(t) ==
    /\ loop[t].pc = "step_wrap"
    /\ StepWrap
    /\ loop' = [loop EXCEPT ![t].pc = "step_cav"]
    /\ UNCHANGED <<flag_vars, sim_thread, control_params, gui, history_data, scan,
                   scan_line, plot_pending, plot_view, clock, reset_done, appended_since_stop,
                   main, ref, sample_step, ss_model, startup, disk>>

scan_step_increment(w) ==
    /\ scan[w].pc = "step_head"
    /\ StepIncrement(control_params)
    /\ scan' = [scan EXCEPT ![w].pc = IF control_params.pulsed THEN "step_wrap" ELSE "step_cav",
                            ![w].params = control_params]
    /\ UNCHANGED <<flag_vars, sim_thread, control_params, gui, history_data, loop,
                   scan_line, plot_pending, plot_view, clock, reset_done, appended_since_stop,
                   main, ref, sample_step, ss_model, startup, disk>>

scan_step_wrap(w) ==
    /\ scan[w].pc = "step_wrap"
    /\ StepWrap
    /\ scan' = [scan EXCEPT ![w].pc = "step_cav"]
    /\ UNCHANGED <<flag_vars, sim_thread, control_params, gui, history_data, loop,
                   scan_line, plot_pending, plot_view, clock, reset_done, appended_since_stop,
                   main, ref, sample_step, ss_model, startup, disk>>

\* The stepping loop and the first scan, their steps interleaved statement by
\* statement around the pulse index, under the pulse-mode check box.
\* The Pulsed Mode box ticked, and never unticked.
pulsed_on == ~gui.pulsed /\ pulsed_check
\* Start Scan pressed with "phase" in the parameter box and a range that
\* the range test accepts.
start_phase_scan ==
    /\ start_parameter_scan
    /\ scan' # scan
    /\ \A w \in ScanIds : scan'[w].pc # "unborn" => scan'[w].param = "phase"

NextEnvelope ==
    \/ \E t \in LoopIds :
          \/ loop_begin(t) \/ loop_while(t) \/ loop_if_playback(t)
          \/ loop_step_increment(t) \/ loop_step_wrap(t) \/ loop_step_cav(t)
          \/ loop_store(t) \/ loop_evict_time(t) \/ loop_evict_rest(t)
          \/ loop_append_time(t) \/ loop_append_rest(t) \/ loop_mech(t) \/ loop_ctrl(t)
          \/ loop_count(t) \/ loop_sleep(t)
    \/ scan_begin(1) \/ scan_set(1)
    \/ scan_step_increment(1) \/ scan_step_wrap(1) \/ scan_step_cav(1)
    \/ scan_record(1) \/ scan_restore(1) \/ scan_publish(1)
    \/ start_phase_scan
    \/ pulsed_on \/ update_params
SpecEnvelope == Init /\ [][NextEnvelope]_vars

\* Start Scan pressed again while a scan runs: one worker slot more.
InitTwoScans == ConstructedFor(StartupOk, 1..(MaxScans + 1)) /\ ref = RefConstructed
NextTwoScans ==
    \/ \E w \in DOMAIN scan : parameter_scan(w)
    \/ start_parameter_scan \/ close_error_box
SpecTwoScans == InitTwoScans /\ [][NextTwoScans]_vars

\* ------------------------------ the source phase, read and written apart
\* Lines 398-404 up to the call: the snapshot, the beam profile, and
\* self.pha_src evaluated as the argument of sim_rfsrc.
loop_step_read(t) ==
    /\ loop[t].pc = "step_head"
    /\ beam_fill' = control_params.ib
    /\ loop' = [loop EXCEPT ![t].pc = "step_phase", ![t].params = control_params,
                            ![t].pha = pha_src]
    /\ UNCHANGED <<flag_vars, sim_thread, control_params, gui, history_data, scan,
                   state_m, state_vc, pha_src, buf_id, dw,
                   scan_line, plot_pending, plot_view, clock, reset_done, appended_since_stop,
                   main, ref, sample_step, ss_model, startup, fresh, disk>>

\* Lines 404-410: sim_rfsrc returns and its second result is assigned to
\* self.pha_src; then the pulse index.
loop_step_write(t) ==
    /\ loop[t].pc = "step_phase"
    /\ pha_src' = sim_rfsrc(loop[t].params.fsrc, loop[t].params.amp, loop[t].pha)[2]
    /\ buf_id' = AdvanceBufId(buf_id, loop[t].params.pulsed)
    /\ fresh' = [fresh EXCEPT !.s = HeadOf(@, loop[t].params)]
    /\ loop' = [loop EXCEPT ![t].pc = "step_cav", ![t].pha = 0]
    /\ UNCHANGED <<flag_vars, sim_thread, control_params, gui, history_data, scan,
                   state_m, state_vc, dw, beam_fill,
                   scan_line, plot_pending, plot_view, clock, reset_done, appended_since_stop,
                   main, ref, sample_step, ss_model, startup, disk>>

\* The stepping loop, its phase update statement by statement, against the
\* frequency slider and start, stop and reset.
NextPhase ==
    \/ \E t \in LoopIds :
          \/ loop_begin(t) \/ loop_while(t) \/ loop_if_playback(t)
          \/ loop_step_read(t) \/ loop_step_write(t) \/ loop_step_cav(t)
          \/ loop_store(t) \/ loop_evict_time(t) \/ loop_evict_rest(t)
          \/ loop_append_time(t) \/ loop_append_rest(t) \/ loop_mech(t) \/ loop_ctrl(t)
          \/ loop_count(t) \/ loop_sleep(t) \/ loop_exit(t)
    \/ start_simulation \/ reset_simulation
    \/ fsrc_scale \/ update_params
SpecPhase == Init /\ [][NextPhase]_vars

\* A scan started after the stepping loop has stored samples and stopped.
NextScanStopped ==
    \/ \E t \in LoopIds :
          \/ loop_begin(t) \/ loop_while(t) \/ loop_if_playback(t)
          \/ loop_step_head(t) \/ loop_step_cav(t)
          \/ loop_store(t) \/ loop_evict_time(t) \/ loop_evict_rest(t)
          \/ loop_append_time(t) \/ loop_append_rest(t) \/ loop_mech(t) \/ loop_ctrl(t)
          \/ loop_count(t) \/ loop_sleep(t) \/ loop_exit(t)
    \/ stop_simulation
    \/ parameter_scan(1)
    \/ start_phase_scan
SpecScanStopped == Init /\ [][NextScanStopped]_vars

\* Every operation, one after another: a handler of the foreground runs
\* when the stepping thread is between two passes of its loop and no scan
\* is in progress, a scan steps while the loop waits, and the loop steps
\* while no scan is in progress and no handler is running.
LoopQuiet == \A t \in LoopIds : loop[t].pc \in {"unborn", "while", "dead", "crashed"}
ScanQuiet == \A w \in ScanIds : scan[w].pc \in {"unborn", "done"}
NextOperations ==
    \/ /\ ScanQuiet /\ MainIdle
       /\ \E t \in LoopIds : simulation_loop(t)
    \/ /\ LoopQuiet /\ MainIdle
       /\ parameter_scan(1)
    \/ update_params
    \/ /\ LoopQuiet /\ ScanQuiet
       /\ \/ reset_simulation
          \/ toggle_recording \/ toggle_playback \/ pulsed_on
          \/ save_data_json \/ load_saved \/ start_phase_scan
SpecOperations == Init /\ [][NextOperations]_vars

\* time.time() moves on while no step is being computed: during the sleep of
\* line 466, during playback, or while another thread has the processor.
time_passes ==
    /\ clock < MaxClock
    /\ clock' = clock + 1
    /\ UNCHANGED <<flag_vars, sim_thread, control_params, gui, history_data, cavity_vars,
                   loop, scan, scan_line, plot_pending, plot_view, reset_done,
                   appended_since_stop, main, ref, sample_step, ss_model, startup, fresh, disk>>

\* The stepping loop under a wall clock that runs on between its steps.
NextTime ==
    \/ \E t \in LoopIds : running_loop(t)
    \/ toggle_playback \/ time_passes
SpecTime == Init /\ [][NextTime]_vars

\* Recording switched on and off while the amplitude slider is moved.
NextRecord ==
    \/ \E t \in LoopIds : running_loop(t)
    \/ toggle_playback \/ toggle_recording
    \/ amp_scale \/ update_params
SpecRecord == Init /\ [][NextRecord]_vars

\* A session saved while the loop runs, and loaded back.
NextSession ==
    \/ \E t \in LoopIds : running_loop(t)
    \/ toggle_playback
    \/ save_data_csv \/ save_data_json \/ load_saved \/ close_error_box
SpecSession == Init /\ [][NextSession]_vars

\* ------------------------------------------------------------------ claims
\* C1: after any sequence of step appends, resets and loads, the time channel
\* of the history never holds more than max_history samples.
HistoryWithinCapacity == Len(history_data.time) <= max_history

\* C2: between operations (no stepping thread inside store_data), all sample
\* channels and all per-mode channels of the history have the same length.
ChannelsEqual ==
    /\ \A k \in 1..NSampleKeys : Len(history_data[SampleKeys[k]]) = Len(history_data.time)
    /\ \A m \in Modes : Len(history_data.mech_modes[m]) = Len(history_data.time)
ChannelsEqualBetweenOperations ==
    (\A t \in LoopIds : loop[t].pc \notin StorePositions) => ChannelsEqual

\* C3: no state is reachable in which a scan worker and the stepping thread are
\* both inside simulation_step on the shared cavity state.
ScanExcludesLiveStep ==
    ~ \E t \in LoopIds, w \in ScanIds : loop[t].pc = "step_cav" /\ scan[w].pc = "step_cav"

\* C4: update_plots never hands a plot line x and y arrays of different
\* lengths, that is, never reads the history in the middle of an append or an
\* eviction by the stepping thread.
PlotSeesEqualLengths ==
    \A l \in DOMAIN plot_view : plot_view[l][1] = plot_view[l][2]

\* C5: once reset() has completed and nothing has been started since, the
\* driver is stopped, every cavity state field is zero and every history
\* channel is empty, whatever the stepping loop does in between.
ResetLeavesZeroState ==
    reset_done =>
        /\ ~simulation_running
        /\ state_vc = 0 /\ state_m = 0 /\ dw = 0 /\ pha_src = 0 /\ buf_id = 0
        /\ history_data = EmptyHistory

\* C6: after stop() the stepping loop finishes at most the one step that was
\* in progress and appends nothing more until start() is called again: while
\* the driver is stopped, at most one sample has been appended since the stop.
StopEndsAppends == ~simulation_running => appended_since_stop <= 1
\* C6's case: the driver is stopped, the step in progress was stored, and the
\* loop thread has left its loop.
StopEndsAppendsReached ==
    /\ ~simulation_running
    /\ appended_since_stop = 1
    /\ sim_thread # 0 /\ loop[sim_thread].pc = "dead"

\* C7: at most one stepping-loop thread is alive at a time, and start() while
\* the driver is running changes no program state and creates no thread.
AliveLoops == {t \in LoopIds : LoopAlive(t)}
OneLoopThread ==
    /\ [](Cardinality(AliveLoops) <= 1)
    /\ [][(start_simulation /\ simulation_running) =>
             UNCHANGED <<simulation_running, recording, playback_mode, playback_index,
                         playback_to, sim_thread, control_params, gui, history_data,
                         cavity_vars, loop, scan, scan_line, plot_pending, plot_view,
                         clock>>]_vars
\* C7's case: the first loop thread has ended and a later start() has created
\* the one thread now alive, which began after the clock had moved on.
OneLoopThreadReached ==
    /\ simulation_running
    /\ Cardinality(AliveLoops) = 1
    /\ sim_thread \in AliveLoops
    /\ loop[sim_thread].start_time > 0

\* C8: no state is reachable in which playback_mode is true and a live step is
\* being computed or stored.
PlaybackExcludesLiveStep ==
    playback_mode => \A t \in LoopIds : loop[t].pc \notin LiveStepPositions

\* C9: a scan keeps the value the swept parameter had when the scan began,
\* writes that value back when it finishes, and no step of the scan changes
\* any other control parameter.
ScanRestoresParameter ==
    [][\A w \in ScanIds :
          LET p == scan[w].param
          IN  /\ (scan[w].pc = "begin" /\ scan'[w].pc # "begin") =>
                     scan'[w].original_value = control_params[p]
              /\ (scan[w].pc \notin {"unborn", "begin"}) =>
                     /\ scan'[w].original_value = scan[w].original_value
                     /\ scan'[w].param = p
              /\ (scan[w].pc = "restore" /\ scan'[w].pc # "restore") =>
                     control_params'[p] = scan[w].original_value
              /\ (scan[w].pc # "unborn" /\ scan'[w] # scan[w]) =>
                     \A q \in Range(ParamKeys) \ {p} : control_params'[q] = control_params[q]
      ]_vars
\* C9's case: a scan has swept all its setpoints and written the original
\* value back over a last setpoint that differs from it.
ScanRestoresParameterReached ==
    \E w \in ScanIds :
        /\ scan[w].pc = "publish"
        /\ Len(scan[w].responses) = num_points
        /\ control_params[scan[w].param] = scan[w].original_value
        /\ scan[w].original_value # scan[w].param_values[num_points]

\* C10: a finished scan holds exactly num_points (parameter value, response)
\* pairs, ascending and evenly spaced, the first parameter value being the
\* range's minimum and the last its maximum; the scan plot shows such a result.
EvenGrid(r, lo, hi) ==
    /\ Len(r) = num_points
    /\ r[1][1] = lo
    /\ r[num_points][1] = hi
    /\ \A j \in 1..(num_points - 1) :
          /\ r[j + 1][1] > r[j][1]
          /\ r[j + 1][1] - r[j][1] = r[2][1] - r[1][1]
ScanYieldsEvenGrid ==
    /\ \A w \in ScanIds :
          scan[w].pc = "done" => EvenGrid(ScanResult(w), scan[w].min_val, scan[w].max_val)
    /\ scan_line # <<>> =>
          \E w \in ScanIds : scan[w].pc = "done" /\ scan_line = ScanResult(w)
\* C10's case: a scan over an accepted range has finished and its result is on
\* the scan plot.
ScanYieldsEvenGridReached ==
    \E w \in ScanIds :
        /\ scan[w].pc = "done"
        /\ scan[w].min_val < scan[w].max_val
        /\ scan_line = ScanResult(w)
        /\ Len(scan_line) = num_points

\* C11: a scan request with min >= max is refused with an error before any
\* worker is started: no worker ever runs over such a range, and the step that
\* shows the error leaves the control parameters, the cavity state, the
\* history and every thread as they were.
ScanRejectsBadRange ==
    /\ [](\A w \in ScanIds : scan[w].pc # "unborn" => scan[w].min_val < scan[w].max_val)
    /\ [][(main.pc # "scan_error" /\ main'.pc = "scan_error") =>
             UNCHANGED <<control_params, cavity_vars, history_data, scan, loop,
                         simulation_running, sim_thread>>]_vars
\* C11's case: the error dialog of a refused request is open and no worker
\* has been started.
ScanRejectsBadRangeReached ==
    /\ main.pc = "scan_error"
    /\ \A w \in ScanIds : scan[w].pc = "unborn"

\* C12: when the integrator reports failure for a step, the driver goes to
\* Stopped and that step's outputs are not stored: a loop thread holding a
\* failed step's outputs is never found with the driver running, nor inside
\* store_data.
FailedStepStopsDriver ==
    \A t \in LoopIds :
        ~loop[t].status => (~simulation_running /\ loop[t].pc \notin StorePositions)

\* C13: when the mechanical model builder or the discretization reports a
\* non-success status at startup, initialization aborts: the driver is never
\* running and no stepping thread ever exists.
StartupFailureAborts ==
    ~(startup.mech /\ startup.disc) =>
        (~simulation_running /\ \A t \in LoopIds : loop[t].pc = "unborn")

\* C14: a load that fails (the error dialog of load_data opens) leaves the
\* in-memory history exactly as it was before the load was attempted.
FailedLoadKeepsStore ==
    [][(main.pc # "load_error" /\ main'.pc = "load_error") =>
          history_data' = history_data]_vars

\* C15: after reset(), n steps give the cavity state and the step outputs
\* (vc, vr, dw) that n steps on a freshly constructed instance give, under
\* the same control parameters and the same noise: the program's cavity state
\* and a finished step's outputs always equal those of the fresh instance that
\* has taken the steps taken since the last reset.
ResetReplaysFreshRun ==
    /\ state_vc = fresh.s.state_vc
    /\ state_m = fresh.s.state_m
    /\ dw = fresh.s.dw
    /\ pha_src = fresh.s.pha_src
    /\ buf_id = fresh.s.buf_id
    /\ \A t \in LoopIds :
          loop[t].pc = "store" =>
              (loop[t].vc = fresh.vc /\ loop[t].vr = fresh.vr /\ loop[t].dw = fresh.dw)
\* C15's case: steps were taken, a reset came, and one step has been taken
\* since: the oscillator phase is one step's worth while the clock has
\* counted more steps.
ResetReplaysFreshRunReached ==
    \E t \in LoopIds :
        /\ loop[t].pc = "store"
        /\ pha_src = InitialParams.fsrc
        /\ state_vc # 0
        /\ clock >= 2


\* C16: reset() leaves every field of the control parameters as it was: the
\* step that completes a reset changes none of amp, phase, fsrc, ib, pulsed
\* and gain_dB.
ResetKeepsParameters ==
    [][(~reset_done /\ reset_done') =>
           \A key \in DOMAIN control_params : control_params'[key] = control_params[key]]_vars

ResetKeepsParametersReached ==
    /\ reset_done
    /\ MainIdle
    /\ control_params.pulsed # InitialParams.pulsed


\* C17: loading the file that save_data wrote, tabular or structured, gives
\* a history with the same rows and the same values in every channel as the
\* history that was saved (a history saved between two store_data calls, its
\* sample lists all of the length of 'time').
SavedBetweenOperations ==
    \A k \in 1..NSampleKeys : Len(disk.saved[SampleKeys[k]]) = Len(disk.saved.time)
SaveLoadRoundTrip ==
    [][(load_saved /\ SavedBetweenOperations) => history_data' = disk.saved]_vars


\* C18: the pulse index stays in 0 .. pul_len - 1; a step whose snapshot has
\* pulsed set advances it by one, back to 0 on reaching pul_len, and a step
\* in continuous-wave mode leaves it unchanged.
BufIdAdvancesAndWraps ==
    /\ [](buf_id \in 0..(pul_len - 1))
    /\ [][\A w \in ScanIds :
             (scan[w].pc = "step_head" /\ scan'[w].pc = "step_cav") =>
                 buf_id' = IF scan'[w].params.pulsed THEN (buf_id + 1) % pul_len
                           ELSE buf_id]_vars

BufIdAdvancesAndWrapsReached ==
    \E w \in ScanIds :
        /\ scan[w].pc = "step_cav" /\ scan[w].params.pulsed /\ buf_id = 0
        /\ scan[w].i > 1


\* C19: a step takes its snapshot of the control parameters when it starts,
\* keeps it while it is in progress, and computes the source, modulator,
\* amplifier and integrator stages from that snapshot: a parameter written
\* by the foreground in the middle of the step does not change its result.
StepUsesOneSnapshot ==
    [][\A t \in LoopIds :
          /\ (loop[t].pc = "step_head" /\ loop'[t].pc = "step_cav") =>
                 /\ loop'[t].params = control_params
                 /\ beam_fill' = control_params.ib
          /\ (loop[t].pc = "step_cav" /\ loop'[t].pc = "step_cav") =>
                 loop'[t].params = loop[t].params
          /\ (loop[t].pc = "step_cav" /\ loop'[t].pc = "store") =>
                 \E noise \in NoiseValues :
                     LET r == ResultOf(Cavity, loop[t].params, noise)
                     IN  /\ state_vc' = r.vc /\ dw' = r.dw /\ state_m' = r.state_m
                         /\ loop'[t].vc = r.vc /\ loop'[t].vr = r.vr /\ loop'[t].dw = r.dw]_vars

StepUsesOneSnapshotReached ==
    \E t \in LoopIds :
        /\ loop[t].pc = "step_cav"
        /\ MainIdle
        /\ loop[t].params.amp # control_params.amp
        /\ loop[t].params.pulsed # control_params.pulsed


\* C20: the snapshot a step takes never holds part of one update_params
\* call: no step copies the control parameters at a moment when that call
\* has already changed a field and has yet to change another.
PartialUpdate ==
    /\ main.pc = "update_params"
    /\ main.dirty
    /\ \E k \in main.k..Len(UpdateOrder) :
           control_params[UpdateOrder[k]] # gui[UpdateOrder[k]]
SnapshotSeesWholeUpdates ==
    [][(\/ \E w \in ScanIds : scan[w].pc = "step_head" /\ scan'[w].pc = "step_cav"
        \/ \E t \in LoopIds : loop[t].pc = "step_head" /\ loop'[t].pc = "step_cav")
           => ~PartialUpdate]_vars

\* C21: control parameters are appended to the history only while recording
\* is on; with recording on, a stored sample adds exactly one entry to each
\* recorded parameter channel and store_data returns without an exception.
RecordingAppendsOneEach ==
    [][\A t \in LoopIds :
          (loop[t].pc = "ctrl" /\ loop'[t].pc # "ctrl") =>
              IF recording
              THEN /\ loop'[t].pc = "count"
                   /\ \A p \in DOMAIN history_data.control_params :
                          Len(history_data'.control_params[p])
                              = Len(history_data.control_params[p]) + 1
              ELSE history_data'.control_params = history_data.control_params]_vars

\* C22: while playback is active the playback index lies between 0 and the
\* history length minus one, after every seek and after every operation
\* that changes the history length.
PlaybackIndexInRange ==
    playback_mode =>
        (0 <= playback_index /\ playback_index <= Len(history_data.time) - 1)

\* C23: a scan whose range was accepted returns, having taken exactly
\* num_points * settle_steps steps: settle_steps for each setpoint, the
\* setpoints taken one after another in grid order.
ScanTerminatesAfterAllSteps ==
    /\ (scan[1].pc # "unborn") ~> (scan[1].pc = "done")
    /\ [](\A w \in ScanIds :
             /\ scan[w].pc = "done" => scan[w].steps = num_points * settle_steps
             /\ scan[w].pc \in {"step_head", "step_cav"} =>
                    scan[w].steps = (scan[w].i - 1) * settle_steps + scan[w].n)

ScanTerminatesAfterAllStepsReached ==
    /\ scan[1].pc = "done"
    /\ scan[1].steps = num_points * settle_steps
    /\ Len(scan[1].responses) = num_points

RunningHasLiveLoop ==
    (simulation_running /\ ~playback_mode) =>
        \E t \in LoopIds : LoopAlive(t) /\ loop[t].pc # "exiting"

\* C27: whenever playback is active, a toggle-playback request switches it
\* off, also after reset() or a load has emptied the history.
ToggleLeavesPlayback ==
    (playback_mode /\ MainIdle) => ENABLED (toggle_playback /\ ~playback_mode')

\* C28: at most one scan is in progress at any time: a start-scan request
\* made while a scan runs starts no second worker.
ScansInProgress == {w \in DOMAIN scan : scan[w].pc \notin {"unborn", "done"}}
OneScanAtATime == Cardinality(ScansInProgress) <= 1

\* C29: within one pulsed step the pulse index is advanced only after the
\* modulator and the integrator have used it: the envelope position they
\* read is the index the step started with, so the first pulsed step after
\* a reset, which starts with index 0, reads envelope position 0.
PulsedStepReadsIndexBeforeAdvance ==
    [][\A t \in LoopIds :
          (loop[t].pc = "step_head" /\ loop'[t].pc = "step_cav"
              /\ loop'[t].params.pulsed) =>
                 EnvelopeIndex(buf_id') = EnvelopeIndex(buf_id)]_vars

\* C30: whatever value the pulse index has when a pulsed step looks the
\* envelopes up (values from the buffer length to the pulse period, and the
\* values another thread's increment leaves behind, included), the position
\* read lies inside the envelope buffer, and an index at or past the buffer
\* length reads the last element.
PulsedLookupPending ==
    \/ \E t \in LoopIds : loop[t].pc = "step_cav" /\ loop[t].params.pulsed
    \/ \E w \in ScanIds : scan[w].pc = "step_cav" /\ scan[w].params.pulsed
EnvelopeLookupsInside ==
    PulsedLookupPending =>
        /\ EnvelopeIndex(buf_id) \in 0..(buf_size - 1)
        /\ buf_id >= buf_size => EnvelopeIndex(buf_id) = buf_size - 1

EnvelopeLookupsInsideReached ==
    /\ buf_id >= pul_len
    /\ \E t \in LoopIds, w \in ScanIds :
          \/ loop[t].pc = "step_cav" /\ loop[t].params.pulsed /\ scan[w].pc = "step_wrap"
          \/ scan[w].pc = "step_cav" /\ scan[w].params.pulsed /\ loop[t].pc = "step_wrap"

\* C31: an append that finds the store at capacity removes the oldest entry
\* of every channel and then adds the new one: between appends the store
\* holds at most max_history samples, in the order of their steps, and the
\* entries at one index of the time channel and of the recorded-parameter
\* channels belong to the same step.
BetweenAppends == \A t \in LoopIds : loop[t].pc \notin StorePositions
StoredInStepOrder ==
    \A i \in 1..Len(sample_step.time), j \in 1..Len(sample_step.time) :
        i < j => sample_step.time[i] < sample_step.time[j]
RecordedAlignedWithSamples ==
    \A i \in 1..Len(sample_step.ctrl) :
        i <= Len(sample_step.time) /\ sample_step.ctrl[i] = sample_step.time[i]
EvictionKeepsAlignment ==
    BetweenAppends =>
        /\ Len(history_data.time) <= max_history
        /\ StoredInStepOrder
        /\ RecordedAlignedWithSamples

\* C32: with recording on, the control-parameter values stored with a
\* sample are those of the snapshot the sample was computed from, whatever
\* the foreground wrote to the parameters while the step was in progress.
RecordedIsSnapshot ==
    [][\A t \in LoopIds :
          (loop[t].pc = "ctrl" /\ loop'[t].pc # "ctrl" /\ recording) =>
              \A p \in DOMAIN history_data.control_params :
                  LET ch == history_data'.control_params[p]
                  IN  /\ Len(ch) = Len(history_data.control_params[p]) + 1
                      /\ ch[Len(ch)] = loop[t].params[p]]_vars

\* C33: each step advances simulated time by exactly Ts, whatever the wall
\* clock does: the times stored with consecutive samples differ by Ts, and
\* the time stored with a thread's k-th sample is k * Ts.  (The clock counts
\* in units of Ts.)
Ts == 1
StoredTimesStepByTs ==
    \A i \in 1..(Len(history_data.time) - 1) :
        history_data.time[i + 1] - history_data.time[i] = Ts
TimeIsStepCountTimesTs ==
    \A t \in LoopIds :
        loop[t].pc = "count" => loop[t].current_time = (loop[t].step_count + 1) * Ts
SimulatedTimeAdvancesByTs ==
    /\ BetweenAppends => StoredTimesStepByTs
    /\ TimeIsStepCountTimesTs

\* C34: in continuous-wave mode the beam-induced voltage handed to the
\* integrator is -RL times the beam current of the step's parameters (zero
\* exactly when that current is zero), so a new beam current reaches the
\* integrator with the next step.
CwBeamFollowsBeamCurrent ==
    /\ \A t \in LoopIds :
          (loop[t].pc = "step_cav" /\ ~loop[t].params.pulsed) =>
              BeamVoltage(FALSE, buf_id, beam_fill) = Nz(loop[t].params.ib)
    /\ \A w \in ScanIds :
          (scan[w].pc = "step_cav" /\ ~scan[w].params.pulsed) =>
              BeamVoltage(FALSE, buf_id, beam_fill) = Nz(scan[w].params.ib)

\* C35: the oscillator phase changes only through a step, which adds the
\* increment of its frequency offset to the previous value, and through
\* reset, which sets it to 0; a new frequency offset leaves the accumulated
\* phase as it is, and every stored sample comes from a step that applied
\* one increment.
StepWritesPhase(t) == loop[t].pc # "step_cav" /\ loop'[t].pc = "step_cav"
PhaseAccumulates ==
    [][/\ pha_src' # pha_src =>
            \/ reset_done' /\ ~simulation_running' /\ pha_src' = 0
            \/ \E t \in LoopIds :
                  StepWritesPhase(t) /\ pha_src' = pha_src + loop'[t].params.fsrc
       /\ \A t \in LoopIds :
            (loop[t].pc # "store" /\ loop'[t].pc = "store") => loop[t].pc = "step_cav"]_vars

\* C36: a scan appends nothing to the history: while a scan is in progress
\* and no stepping-loop thread is alive, no step changes the history, so
\* the store after the scan is the store before it.
ScanInProgress == \E w \in ScanIds : scan[w].pc \notin {"unborn", "done"}
LoopStopped == \A t \in LoopIds : ~LoopAlive(t)
ScanLeavesHistory ==
    [][(ScanInProgress /\ LoopStopped) => history_data' = history_data]_vars

ScanLeavesHistoryReached ==
    /\ LoopStopped
    /\ Len(history_data.time) > 0
    /\ \E w \in ScanIds : scan[w].pc = "done" /\ scan[w].steps = num_points * settle_steps

\* C37: after initialization no operation (step, scan, reset, parameter
\* update, recording toggle, save, load, playback) modifies the mechanical
\* mode set or the discrete state-space matrices Ad, Bd, Cd, Dd.
ModelNeverModified == [][ss_model' = ss_model]_vars

ModelNeverModifiedReached ==
    /\ reset_done
    /\ disk.kind # "none"
    /\ ss_model = BuiltModel(StartupOk)
    /\ \E w \in ScanIds : scan[w].pc = "done"

====
